---- MODULE Spec2Model ----
(***************************************************************************)
(* SkyLens skyline computation: the serial backend (computeSkylineCPU),    *)
(* the WebGPU backend (computeSkylineWebGPU with its WGSL kernel and its   *)
(* module-level buffers) and the dominance predicate they share.           *)
(*                                                                         *)
(* JavaScript values are records [k, n]: k = "num" is the finite number n, *)
(* k = "nan" is NaN (also standing for a missing key, which both backends  *)
(* treat alike), k = "inf" is n * Infinity (n = 1 or -1).  Device buffers  *)
(* are sequences of 32-bit words; a float word holds the number it         *)
(* denotes.                                                                *)
(***************************************************************************)
EXTENDS Integers, Sequences, FiniteSets, TLC

VARIABLES
  data,             \* the records passed to the backends
  attrs,            \* the ordered active attributes passed to the backends
  cpuResult,        \* what computeSkylineCPU returned for (data, attrs)
  gpuResult,        \* what computeSkylineWebGPU returned for (data, attrs)
  pc,               \* position of the computeSkylineWebGPU call
  gpuStatePromise,  \* module-level cache of getGPUState
  dataBuf, dataBufBytes,
  resultBuf, resultBufBytes,
  uniformBuf, uniformBufBytes,
  readbackBuf, readbackBufBytes,
  gpuBuffers,       \* the device's buffers, by handle: size, destroyed, mapped, words
  submitted,        \* the command buffer handed to queue.submit and not yet executed
  touched,          \* whether the running call has used the device or the cache
  ref,              \* an earlier call's input and results, kept for comparison
  presented,        \* how many inputs the caller has presented so far
  alt,              \* a second input, agreeing with data on the active attributes
  domRes,           \* results of the dominance predicate on data[1], data[2]
  probe,            \* a pure function's input and, once applied, its output
  gpuEnv,           \* what the browser offers: enums, navigator.gpu, adapter, device
  acquisitions,     \* how often getGPUState has started an acquisition
  devices,          \* how many devices (with queue and pipeline) have been created
  mapAttempts,      \* mapAsync calls made by the running call
  steps,            \* the device operations of the running call, in order
  slotLivePeak,     \* most buffers of one slot that were alive at the same time
  failure,          \* where the running call threw, "none" if it did not
  reqs,             \* App: the runs of the compute effect, oldest first
  skylineResult,    \* App: the displayed result, by the run that produced it
  isComputing       \* App: the computing flag

bufVars == <<dataBuf, dataBufBytes, resultBuf, resultBufBytes,
             uniformBuf, uniformBufBytes, readbackBuf, readbackBufBytes>>
modVars == <<gpuStatePromise, dataBuf, dataBufBytes, resultBuf, resultBufBytes,
             uniformBuf, uniformBufBytes, readbackBuf, readbackBufBytes, gpuBuffers,
             submitted>>
vars == <<data, attrs, cpuResult, gpuResult, pc, gpuStatePromise,
          dataBuf, dataBufBytes, resultBuf, resultBufBytes,
          uniformBuf, uniformBufBytes, readbackBuf, readbackBufBytes,
          gpuBuffers, submitted, touched, ref, presented, alt, domRes, probe,
          gpuEnv, acquisitions, devices, mapAttempts, steps, slotLivePeak, failure,
          reqs, skylineResult, isComputing>>
callVars == <<mapAttempts, steps, failure>>
obsVars == <<acquisitions, devices, mapAttempts, steps, slotLivePeak, failure>>
appVars == <<reqs, skylineResult, isComputing>>

----------------------------------------------------------------------------
(* Bounds and input domains *)

MaxN == 3
MaxCalls == 3

Keys == {"pace", "shoot"}
IdOf == <<"A", "B", "C", "D", "E", "F">>

Num(n) == [k |-> "num", n |-> n]
NaN == [k |-> "nan", n |-> 0]
Infinity == [k |-> "inf", n |-> 1]

TwoTo24 == 2 ^ 24

\* Values per key.  pace: NaN (coerced to 0 by both backends) and two
\* neighbouring integers of which only the first is a float32; shoot: 0 and 1.
ValOf(key) ==
  IF key = "pace" THEN {NaN, Num(TwoTo24), Num(TwoTo24 + 1)} ELSE {Num(0), Num(1)}
PointVals == { v \in [Keys -> {NaN, Num(TwoTo24), Num(TwoTo24 + 1), Num(0), Num(1)}] :
                 \A key \in Keys : v[key] \in ValOf(key) }

MkPoint(i, nm, v) ==
  [id |-> IdOf[i], name |-> nm, pace |-> v["pace"], shoot |-> v["shoot"]]

DataSets(n) ==
  { [i \in 1..n |-> MkPoint(i, "n", vs[i])] : vs \in [1..n -> PointVals] }

\* The worked example of the specification, and a pair with Infinity.
WorkedExample ==
  << [id |-> "A", name |-> "n", pace |-> Num(90), shoot |-> Num(80)],
     [id |-> "B", name |-> "n", pace |-> Num(80), shoot |-> Num(90)],
     [id |-> "C", name |-> "n", pace |-> Num(70), shoot |-> Num(70)] >>
InfExample ==
  << [id |-> "A", name |-> "n", pace |-> Infinity, shoot |-> Num(1)],
     [id |-> "B", name |-> "n", pace |-> Num(5), shoot |-> Num(1)] >>

Attr(key) == [key |-> key]
\* Ordered lists of distinct active attributes, the empty list included.
AttrLists ==
  { [i \in 1..Len(s) |-> Attr(s[i])] :
      s \in { t \in UNION { [1..n -> Keys] : n \in 0..Cardinality(Keys) } :
                \A i, j \in DOMAIN t : i # j => t[i] # t[j] } }

Ids(d) == { d[i].id : i \in DOMAIN d }

----------------------------------------------------------------------------
(* JavaScript number semantics used by the two backends *)

\* Variant: the "|| 0" left out.
OrZeroMissing(v) == v

\* (v as number) || 0 : NaN, undefined and 0 give 0, anything else itself.
OrZero(v) == IF v.k = "nan" \/ (v.k = "num" /\ v.n = 0) THEN Num(0) ELSE v

\* Position of a value on the number line; +-Infinity lie beyond every
\* finite number of the model.
Rank(v) == IF v.k = "inf" THEN v.n * (2 ^ 30) ELSE v.n
JsLt(x, y) == x.k # "nan" /\ y.k # "nan" /\ Rank(x) < Rank(y)
JsGt(x, y) == x.k # "nan" /\ y.k # "nan" /\ Rank(x) > Rank(y)

RECURSIVE Ulp(_, _)
\* Spacing of float32 numbers around the integer m >= 2^24 (u starts at 2).
Ulp(m, u) == IF m < TwoTo24 * u THEN u ELSE Ulp(m, 2 * u)

\* Math.fround on an integer: nearest float32, ties to even.
Fround(n) ==
  LET m == IF n < 0 THEN -n ELSE n
      s == IF n < 0 THEN -1 ELSE 1
  IN IF m < TwoTo24 THEN n
     ELSE LET u == Ulp(m, 2)
              q == m \div u
              r == m % u
              up == (2 * r > u) \/ (2 * r = u /\ q % 2 = 1)
          IN s * u * (IF up THEN q + 1 ELSE q)

\* const v = Number(x); flat[k] = Number.isFinite(v) ? v : 0, stored in a
\* Float32Array.
ToFlat(v) == IF v.k = "num" THEN Fround(v.n) ELSE 0

----------------------------------------------------------------------------
(* skylineService.ts *)

RECURSIVE dominatesFrom(_, _, _, _, _)
dominatesFrom(a, b, attributes, k, betterInAtLeastOne) ==
  IF k > Len(attributes) THEN betterInAtLeastOne
  ELSE LET valA == OrZero(a[attributes[k].key])
           valB == OrZero(b[attributes[k].key])
       IN IF JsLt(valA, valB) THEN FALSE
          ELSE dominatesFrom(a, b, attributes, k + 1,
                             betterInAtLeastOne \/ JsGt(valA, valB))

\* Variant: "no worse everywhere" alone, the strict improvement not required.
dominatesOrEqual(a, b, attributes) == dominatesFrom(a, b, attributes, 1, TRUE)

\* Variant: the two records taken the other way round.
dominatesSwapped(a, b, attributes) == dominatesFrom(b, a, attributes, 1, FALSE)

dominates(a, b, attributes) == dominatesFrom(a, b, attributes, 1, FALSE)

EmptyResult(method) ==
  [skylineIds |-> {}, dominanceScores |-> <<>>, dominatedBy |-> <<>>,
   method |-> method]

RECURSIVE cpuInnerNoFlag(_, _, _, _, _)
\* Variant: dominatedBy is counted but isADominated is never set.
cpuInnerNoFlag(d, attributes, i, j, st) ==
  IF j > Len(d) THEN st
  ELSE IF i = j THEN cpuInnerNoFlag(d, attributes, i, j + 1, st)
  ELSE LET a == d[i]
           b == d[j]
           s1 == IF dominates(b, a, attributes)
                 THEN [st EXCEPT !.dominatedBy[a.id] = @ + 1]
                 ELSE st
           s2 == IF dominates(a, b, attributes)
                 THEN [s1 EXCEPT !.dominanceScores[a.id] = @ + 1]
                 ELSE s1
       IN cpuInnerNoFlag(d, attributes, i, j + 1, s2)

RECURSIVE cpuInner(_, _, _, _, _)
\* The loop over j for a fixed i; st carries the counters and isADominated.
cpuInner(d, attributes, i, j, st) ==
  IF j > Len(d) THEN st
  ELSE IF i = j THEN cpuInner(d, attributes, i, j + 1, st)
  ELSE LET a == d[i]
           b == d[j]
           s1 == IF dominates(b, a, attributes)
                 THEN [st EXCEPT !.isADominated = TRUE,
                                 !.dominatedBy[a.id] = @ + 1]
                 ELSE st
           s2 == IF dominates(a, b, attributes)
                 THEN [s1 EXCEPT !.dominanceScores[a.id] = @ + 1]
                 ELSE s1
       IN cpuInner(d, attributes, i, j + 1, s2)

RECURSIVE cpuOuterNoReset(_, _, _, _)
\* Variant: isADominated is declared once, outside the loop over i.
cpuOuterNoReset(d, attributes, i, st) ==
  IF i > Len(d) THEN st
  ELSE LET s1 == cpuInner(d, attributes, i, 1, st)
           s2 == IF ~s1.isADominated
                 THEN [s1 EXCEPT !.skylineIds = @ \cup {d[i].id}]
                 ELSE s1
       IN cpuOuterNoReset(d, attributes, i + 1, s2)

RECURSIVE cpuOuter(_, _, _, _)
cpuOuter(d, attributes, i, st) ==
  IF i > Len(d) THEN st
  ELSE LET s1 == cpuInner(d, attributes, i, 1, [st EXCEPT !.isADominated = FALSE])
           s2 == IF ~s1.isADominated
                 THEN [s1 EXCEPT !.skylineIds = @ \cup {d[i].id}]
                 ELSE s1
       IN cpuOuter(d, attributes, i + 1, s2)

\* computationTime of computeSkylineCPU: the constant 0 of the early return, or
\* end - start on an abstract clock (0: no measurable time, 1: some).
Elapsed == {0, 1}
\* Variant: no early return, the time is measured for an empty input too.
cpuTimesMeasured(d) == Elapsed
cpuTimes(d) == IF Len(d) = 0 THEN {0} ELSE Elapsed

\* Variant: the early return also taken for an empty attribute list, as in
\* computeSkylineWebGPU.
computeSkylineCPUNoDims(d, attributes) ==
  IF Len(d) = 0 \/ Len(attributes) = 0 THEN EmptyResult("CPU")
  ELSE LET init == [skylineIds |-> {},
                    dominanceScores |-> [p \in Ids(d) |-> 0],
                    dominatedBy |-> [p \in Ids(d) |-> 0],
                    isADominated |-> FALSE]
           st == cpuOuter(d, attributes, 1, init)
       IN [skylineIds |-> st.skylineIds,
           dominanceScores |-> st.dominanceScores,
           dominatedBy |-> st.dominatedBy,
           method |-> "CPU"]

\* The result without its computationTime, which the calling action adds.
computeSkylineCPU(d, attributes) ==
  IF Len(d) = 0 THEN EmptyResult("CPU")
  ELSE LET init == [skylineIds |-> {},
                    dominanceScores |-> [p \in Ids(d) |-> 0],
                    dominatedBy |-> [p \in Ids(d) |-> 0],
                    isADominated |-> FALSE]
           st == cpuOuter(d, attributes, 1, init)
       IN [skylineIds |-> st.skylineIds,
           dominanceScores |-> st.dominanceScores,
           dominatedBy |-> st.dominatedBy,
           method |-> "CPU"]

----------------------------------------------------------------------------
(* TabularView.tsx: the search effect *)

NoDominator == [isBetterOrEqual |-> TRUE, isStrictlyBetter |-> FALSE]

RECURSIVE searchLoop(_, _, _, _, _)
\* The loop over k with its break; the values are compared as they are stored.
searchLoop(sPoint, foundPoint, attributes, k, f) ==
  IF k > Len(attributes) THEN f
  ELSE LET sVal == sPoint[attributes[k].key]
           pVal == foundPoint[attributes[k].key]
       IN IF JsLt(sVal, pVal) THEN [f EXCEPT !.isBetterOrEqual = FALSE]
          ELSE searchLoop(sPoint, foundPoint, attributes, k + 1,
                          IF JsGt(sVal, pVal)
                          THEN [f EXCEPT !.isStrictlyBetter = TRUE] ELSE f)

RECURSIVE searchForEach(_, _, _, _, _)
\* attributes.forEach(attr => { for (k ...) }): the loop over k once per
\* attribute, the two flags carried along.
searchForEach(sPoint, foundPoint, attributes, n, f) ==
  IF n > Len(attributes) THEN f
  ELSE searchForEach(sPoint, foundPoint, attributes, n + 1,
                     searchLoop(sPoint, foundPoint, attributes, 1, f))

\* skylinePoints: the records of data whose id is in skylineIds, in data order.
skylinePoints(d, result) == SelectSeq(d, LAMBDA p : p.id \in result.skylineIds)

\* The ids handed to setSearchDominators for a found record.
searchDominators(foundPoint, result, d, attributes) ==
  IF foundPoint.id \in result.skylineIds THEN {foundPoint.id}
  ELSE LET sky == skylinePoints(d, result)
       IN { sky[i].id : i \in { n \in DOMAIN sky :
              LET f == searchForEach(sky[n], foundPoint, attributes, 1, NoDominator)
              IN f.isBetterOrEqual /\ f.isStrictlyBetter } }

----------------------------------------------------------------------------
(* webgpuService.ts: the WGSL kernel *)

WorkgroupSize == 64

RECURSIVE dimLoop(_, _, _, _, _, _)
\* The loop over d of SHADER_CODE main, with its break; f holds the four flags.
dimLoop(buf, i_off, j_off, dimensions, d, f) ==
  IF d >= dimensions THEN f
  ELSE LET v_i == buf[i_off + d + 1]
           v_j == buf[j_off + d + 1]
           f1 == IF v_i < v_j THEN [f EXCEPT !.i_be_j = FALSE, !.j_s_i = TRUE] ELSE f
           f2 == IF v_i > v_j THEN [f1 EXCEPT !.j_be_i = FALSE, !.i_s_j = TRUE] ELSE f1
       IN IF ~f2.i_be_j /\ ~f2.j_be_i THEN f2
          ELSE dimLoop(buf, i_off, j_off, dimensions, d + 1, f2)

\* Variant: the "some dimension strictly greater" flags start out true.
kernelPairNoStrict(buf, i, j, dimensions) ==
  dimLoop(buf, i * dimensions, j * dimensions, dimensions, 0,
          [i_be_j |-> TRUE, i_s_j |-> TRUE, j_be_i |-> TRUE, j_s_i |-> TRUE])

\* The four flags for the pair (i, j) at the end of the loop over d.
kernelPair(buf, i, j, dimensions) ==
  dimLoop(buf, i * dimensions, j * dimensions, dimensions, 0,
          [i_be_j |-> TRUE, i_s_j |-> FALSE, j_be_i |-> TRUE, j_s_i |-> FALSE])

RECURSIVE jLoopSkipsLast(_, _, _, _, _, _)
\* Variant: the loop over j stops one record early.
jLoopSkipsLast(buf, i, j, dimensions, count, c) ==
  IF j >= count - 1 THEN c
  ELSE IF i = j THEN jLoopSkipsLast(buf, i, j + 1, dimensions, count, c)
  ELSE LET f == kernelPair(buf, i, j, dimensions)
           c1 == IF f.i_be_j /\ f.i_s_j THEN [c EXCEPT !.d_score = @ + 1] ELSE c
           c2 == IF f.j_be_i /\ f.j_s_i THEN [c1 EXCEPT !.d_by = @ + 1] ELSE c1
       IN jLoopSkipsLast(buf, i, j + 1, dimensions, count, c2)

RECURSIVE jLoop(_, _, _, _, _, _)
\* The loop over j of SHADER_CODE main for work-item i; c holds both counters.
jLoop(buf, i, j, dimensions, count, c) ==
  IF j >= count THEN c
  ELSE IF i = j THEN jLoop(buf, i, j + 1, dimensions, count, c)
  ELSE LET f == kernelPair(buf, i, j, dimensions)
           c1 == IF f.i_be_j /\ f.i_s_j THEN [c EXCEPT !.d_score = @ + 1] ELSE c
           c2 == IF f.j_be_i /\ f.j_s_i THEN [c1 EXCEPT !.d_by = @ + 1] ELSE c1
       IN jLoop(buf, i, j + 1, dimensions, count, c2)

\* What work-item i stores in results[i]: <<dominatedBy, dominatingScore>>.
kernelMain(buf, i, dimensions, count) ==
  LET c == jLoop(buf, i, 0, dimensions, count, [d_by |-> 0, d_score |-> 0])
  IN <<c.d_by, c.d_score>>

\* Variant: the counters are added to what results[i] already holds.
dispatchAccumulate(dataWords, resultWords, uniformWords, groups) ==
  LET dimensions == uniformWords[1]
      count == uniformWords[2]
  IN [w \in 1..Len(resultWords) |->
        LET i == (w - 1) \div 2
        IN IF i < groups * WorkgroupSize /\ i < count
           THEN resultWords[w] + kernelMain(dataWords, i, dimensions, count)[((w - 1) % 2) + 1]
           ELSE resultWords[w]]

\* Variant: the record count is taken from the size of the data buffer.
dispatchWholeBuffer(dataWords, resultWords, uniformWords, groups) ==
  LET dimensions == uniformWords[1]
      count == Len(dataWords) \div dimensions
  IN [w \in 1..Len(resultWords) |->
        LET i == (w - 1) \div 2
        IN IF i < groups * WorkgroupSize /\ i < count
           THEN kernelMain(dataWords, i, dimensions, count)[((w - 1) % 2) + 1]
           ELSE resultWords[w]]

\* dispatchWorkgroups(groups): work-items 0 .. groups*64 - 1 run main; those
\* with i >= params.count return at once.  New words of the results buffer.
dispatch(dataWords, resultWords, uniformWords, groups) ==
  LET dimensions == uniformWords[1]
      count == uniformWords[2]
  IN [w \in 1..Len(resultWords) |->
        LET i == (w - 1) \div 2
        IN IF i < groups * WorkgroupSize /\ i < count
           THEN kernelMain(dataWords, i, dimensions, count)[((w - 1) % 2) + 1]
           ELSE resultWords[w]]

----------------------------------------------------------------------------
(* webgpuService.ts: host side *)

Zeros(n) == [w \in 1..n |-> 0]

\* device.createBuffer({size}): a fresh zero-filled buffer; its handle is its
\* index in gpuBuffers.
createBuffer(heap, size) ==
  Append(heap, [size |-> size, destroyed |-> FALSE, mapped |-> "unmapped",
                words |-> Zeros(size \div 4)])

Max(a, b) == IF a >= b THEN a ELSE b

\* How many of the handles hs are buffers of heap that are not destroyed.
Live(heap, hs) == Cardinality({ h \in hs : h \in DOMAIN heap /\ ~heap[h].destroyed })

\* buf.destroy(): the buffer's memory is freed.
destroy(heap, buf) == [heap EXCEPT ![buf].destroyed = TRUE, ![buf].words = <<>>]

\* Variant: the new buffer is created before the old one is destroyed.
ensureBufferCreateFirst(heap, buf, currentBytes, neededBytes) ==
  IF buf # 0 /\ currentBytes >= neededBytes
  THEN [buf |-> buf, bytes |-> currentBytes, heap |-> heap, peak |-> 1]
  ELSE LET new == Len(heap) + 1
           h1 == createBuffer(heap, neededBytes)
           h2 == IF buf # 0 THEN destroy(h1, buf) ELSE h1
       IN [buf |-> new, bytes |-> neededBytes, heap |-> h2,
           peak |-> Max(Live(h1, {buf, new}), Live(h2, {buf, new}))]

\* Variant: a buffer is reused only when its capacity equals the request.
ensureBufferExactFit(heap, buf, currentBytes, neededBytes) ==
  IF buf # 0 /\ currentBytes = neededBytes
  THEN [buf |-> buf, bytes |-> currentBytes, heap |-> heap, peak |-> 1]
  ELSE LET h1 == IF buf # 0 THEN destroy(heap, buf) ELSE heap
           new == Len(h1) + 1
           h2 == createBuffer(h1, neededBytes)
       IN [buf |-> new, bytes |-> neededBytes, heap |-> h2,
           peak |-> Max(Live(h1, {buf, new}), Live(h2, {buf, new}))]

\* ensureBuffer: handle 0 is null.  Returns the slot's new buffer and byte
\* count together with the device's buffers after destroy / createBuffer, and
\* the most buffers of the slot (old, new) alive at a time on the way.
ensureBuffer(heap, buf, currentBytes, neededBytes) ==
  IF buf # 0 /\ currentBytes >= neededBytes
  THEN [buf |-> buf, bytes |-> currentBytes, heap |-> heap, peak |-> 1]
  ELSE LET h1 == IF buf # 0 THEN destroy(heap, buf) ELSE heap
           new == Len(h1) + 1
           h2 == createBuffer(h1, neededBytes)
       IN [buf |-> new, bytes |-> neededBytes, heap |-> h2,
           peak |-> Max(Live(h1, {buf, new}), Live(h2, {buf, new}))]

\* createBuffer is called by ensureBuffer exactly when the slot is empty or
\* its capacity is too small.
mustCreate(buf, currentBytes, neededBytes) == ~(buf # 0 /\ currentBytes >= neededBytes)

\* ensureBuffer when device.createBuffer throws: the device's buffers at the
\* throw, the old buffer already destroyed.  Nothing is returned.
ensureBufferThrows(heap, buf, currentBytes, neededBytes) ==
  IF buf # 0 THEN destroy(heap, buf) ELSE heap

\* Variant: the columns follow the attribute catalog, not the active list.
Catalog == <<"pace", "shoot">>
flattenCatalog(d, as) ==
  LET count == Len(d)
      dims == Len(as)
  IN [k \in 1..(count * dims) |->
        ToFlat(d[((k - 1) \div dims) + 1][Catalog[((k - 1) % dims) + 1]])]

\* The Float32Array flat of computeSkylineWebGPU, row-major.
flatten(d, as) ==
  LET count == Len(d)
      dims == Len(as)
  IN [k \in 1..(count * dims) |->
        ToFlat(d[((k - 1) \div dims) + 1][as[((k - 1) % dims) + 1].key])]

\* queue.writeBuffer(buf, 0, src): src over the first words of buf.
\* mapAsync resolves: the buffer is mapped for reading.
resolveMap(heap, buf) == [heap EXCEPT ![buf].mapped = "mapped"]

\* Variant: the call returns without readbackBuf.unmap().
unmapLeftOut(heap, buf) == heap

\* buf.unmap().
unmap(heap, buf) == [heap EXCEPT ![buf].mapped = "unmapped"]

\* A write to a destroyed buffer is a validation error without effect.
writeBuffer(heap, buf, src) ==
  IF heap[buf].destroyed THEN heap
  ELSE [heap EXCEPT ![buf].words =
          [w \in 1..Len(@) |-> IF w <= Len(src) THEN src[w] ELSE @[w]]]

\* What the device does with a submitted command buffer: the compute pass,
\* then copyBufferToBuffer(resultBuf, 0, readbackBuf, 0, copyBytes).
\* A command buffer that uses a destroyed buffer fails validation at submit and
\* nothing of it is executed.
execute(heap, cmd) ==
  IF \E h \in {cmd.dataBuf, cmd.resultBuf, cmd.uniformBuf, cmd.readbackBuf} :
       heap[h].destroyed
  THEN heap
  ELSE LET res == dispatch(heap[cmd.dataBuf].words, heap[cmd.resultBuf].words,
                           heap[cmd.uniformBuf].words, cmd.groups)
           h1 == [heap EXCEPT ![cmd.resultBuf].words = res]
       IN [h1 EXCEPT ![cmd.readbackBuf].words =
             [w \in 1..Len(@) |-> IF w <= cmd.copyBytes \div 4 THEN res[w] ELSE @[w]]]

RECURSIVE decodeFrom(_, _, _, _)
\* The decoding loop of computeSkylineWebGPU over the mapped words res.
decodeFrom(d, res, i, r) ==
  IF i >= Len(d) THEN r
  ELSE LET id == d[i + 1].id
           dBy == res[i * 2 + 1]
           dScore == res[i * 2 + 2]
           put(f, v) == [p \in (DOMAIN f) \cup {id} |-> IF p = id THEN v ELSE f[p]]
       IN decodeFrom(d, res, i + 1,
            [r EXCEPT !.dominatedBy = put(@, dBy),
                      !.dominanceScores = put(@, dScore),
                      !.skylineIds = IF dBy = 0 THEN @ \cup {id} ELSE @])

decode(d, res) == decodeFrom(d, res, 0, EmptyResult("WebGPU"))

\* Variant: only the record count is tested.
isDegenerateNoDims(d, as) == Len(d) = 0

\* data.length === 0 || attrs.length === 0
isDegenerate(d, as) == Len(d) = 0 \/ Len(as) = 0

\* Variant: the group count is rounded down.
groupCountFloor(count) == count \div WorkgroupSize

\* Math.ceil(count / 64)
groupCount(count) == (count + WorkgroupSize - 1) \div WorkgroupSize

----------------------------------------------------------------------------
(* State, and the calls as actions *)

(* A computeSkylineWebGPU call is cut at its awaits: pc is "idle" before    *)
(* the call, "awaitState" at await getGPUState(), "awaitWork" at await      *)
(* onSubmittedWorkDone(), "awaitMap" at await mapAsync(), "done" once it    *)
(* has returned, "failed" once it has thrown.  gpuEnv says what the browser  *)
(* offers: "noEnums" (no GPUBufferUsage / GPUMapMode, no navigator.gpu),    *)
(* "noNavGpu" (the enums, but no navigator.gpu), "noAdapter" (requestAdapter*)
(* gives null), "noDevice" (requestDevice rejects), "ok".                   *)

EnvLevels == {"noEnums", "noNavGpu", "noAdapter", "noDevice", "ok"}

\* getWebGPUEnums(): FALSE when it throws.
getWebGPUEnums(env) == env # "noEnums"

\* Variant: the cache is not consulted.
getGPUStateNoCache(promise, env) ==
  [promise |-> IF env \in {"noEnums", "noNavGpu"} THEN "rejected" ELSE "pending",
   started |-> TRUE]

\* getGPUState(): the cached promise if there is one, whatever its state; else
\* a new one, cached at once: rejected already when navigator.gpu is missing,
\* pending on requestAdapter otherwise.
getGPUState(promise, env) ==
  IF promise # "null"
  THEN [promise |-> promise, started |-> FALSE]
  ELSE [promise |-> IF env \in {"noEnums", "noNavGpu"} THEN "rejected" ELSE "pending",
        started |-> TRUE]

\* How the pending acquisition settles: requestAdapter, requestDevice,
\* createShaderModule, createComputePipeline.
acquire(env) == IF env = "ok" THEN "fulfilled" ELSE "rejected"

\* Variant: every failed mapping is tried again.
onMapFailureAlways(attempt) == "retry"

\* Variant: a failed mapping is not tried again.
onMapFailureNever(attempt) == "throw"

\* The catch around mapAsync: the first failure is retried, the second thrown.
onMapFailure(attempt) == IF attempt = 1 THEN "retry" ELSE "throw"

\* Variant: the copy to readbackBuf is encoded before the dispatch.
submitStepsCopyFirst == <<"writeData", "writeUniform", "copy", "dispatch", "submit">>

\* The device operations of a call, by the stretch between two awaits.
submitSteps == <<"writeData", "writeUniform", "dispatch", "copy", "submit">>
waitSteps == <<"workDone", "mapAsync">>
retrySteps == <<"mapFailed", "unmap", "mapAsync">>
readSteps == <<"mapped", "decode", "unmap">>

NoResult ==
  [skylineIds |-> {}, dominanceScores |-> <<>>, dominatedBy |-> <<>>,
   method |-> "none", computationTime |-> 0]
Has(r) == r.method # "none"
Timed(r, t) ==
  [skylineIds |-> r.skylineIds, dominanceScores |-> r.dominanceScores,
   dominatedBy |-> r.dominatedBy, method |-> r.method, computationTime |-> t]

NoCmd ==
  [dataBuf |-> 0, resultBuf |-> 0, uniformBuf |-> 0, readbackBuf |-> 0,
   groups |-> 0, copyBytes |-> 0]
NoRef == [set |-> FALSE, data |-> <<>>, attrs |-> <<>>, cpu |-> NoResult, gpu |-> NoResult]
NoDom == [set |-> FALSE]
NoProbe == [set |-> FALSE]

\* Variant: a failed call answers with the serial backend's result.
onFailureFallback(d, as) == computeSkylineCPU(d, as)

\* What a call that throws hands to its caller: no result.
onFailure(d, as) == NoResult

\* The App is not part of the run.
NoApp ==
  /\ reqs = <<>>
  /\ skylineResult = 0
  /\ isComputing = FALSE

\* WebGPU is available and the App is not part of the run.
EnvOk ==
  /\ gpuEnv = "ok"
  /\ NoApp

\* The module as loaded: nothing cached, no buffer, no call made.
InitModule ==
  /\ cpuResult = NoResult
  /\ gpuResult = NoResult
  /\ pc = "idle"
  /\ gpuStatePromise = "null"
  /\ dataBuf = 0 /\ dataBufBytes = 0
  /\ resultBuf = 0 /\ resultBufBytes = 0
  /\ uniformBuf = 0 /\ uniformBufBytes = 0
  /\ readbackBuf = 0 /\ readbackBufBytes = 0
  /\ gpuBuffers = <<>>
  /\ submitted = NoCmd
  /\ touched = FALSE
  /\ ref = NoRef
  /\ presented = 1
  /\ domRes = NoDom
  /\ acquisitions = 0
  /\ devices = 0
  /\ mapAttempts = 0
  /\ steps = <<>>
  /\ slotLivePeak = 0
  /\ failure = "none"

\* computeSkylineCPU(data, attrs), synchronous; called once per input.
CallCPU ==
  /\ ~Has(cpuResult)
  /\ \E t \in cpuTimes(data) :
       cpuResult' = Timed(computeSkylineCPU(data, attrs), t)
  /\ UNCHANGED <<data, attrs, gpuResult, pc, modVars, touched, ref, presented, alt, domRes, probe>>
  /\ UNCHANGED <<gpuEnv, obsVars, appVars>>

\* computeSkylineWebGPU(data, attrs) up to its first await: the early return
\* for a degenerate input, else getWebGPUEnums() and getGPUState().
GPUStart ==
  /\ pc = "idle"
  /\ IF isDegenerate(data, attrs)
     THEN /\ \E t \in Elapsed : gpuResult' = Timed(EmptyResult("WebGPU"), t)
          /\ pc' = "done"
          /\ touched' = FALSE
          /\ UNCHANGED <<modVars, acquisitions, failure>>
     ELSE IF ~getWebGPUEnums(gpuEnv)
     THEN /\ gpuResult' = onFailure(data, attrs)
          /\ pc' = "failed"
          /\ failure' = "enums"
          /\ touched' = FALSE
          /\ UNCHANGED <<modVars, acquisitions>>
     ELSE LET g == getGPUState(gpuStatePromise, gpuEnv)
          IN /\ gpuStatePromise' = g.promise
             /\ acquisitions' = IF g.started THEN acquisitions + 1 ELSE acquisitions
             /\ pc' = "awaitState"
             /\ touched' = TRUE
             /\ UNCHANGED <<gpuResult, bufVars, gpuBuffers, submitted, failure>>
  /\ UNCHANGED <<data, attrs, cpuResult, ref, presented, alt, domRes, probe>>
  /\ UNCHANGED <<gpuEnv, devices, mapAttempts, steps, slotLivePeak, appVars>>

\* getGPUState() is fulfilled; the call runs on to queue.submit and awaits
\* onSubmittedWorkDone: flatten, the four ensureBuffer, the two writeBuffer,
\* bind group, encoder, dispatch, copy.
GPUStateResolved ==
  /\ pc = "awaitState"
  /\ \/ gpuStatePromise = "fulfilled"
     \/ gpuStatePromise = "pending" /\ acquire(gpuEnv) = "fulfilled"
  /\ gpuStatePromise' = "fulfilled"
  /\ devices' = IF gpuStatePromise = "pending" THEN devices + 1 ELSE devices
  /\ LET count == Len(data)
         dims == Len(attrs)
         flat == flatten(data, attrs)
         e1 == ensureBuffer(gpuBuffers, dataBuf, dataBufBytes, Len(flat) * 4)
         e2 == ensureBuffer(e1.heap, resultBuf, resultBufBytes, count * 8)
         e3 == ensureBuffer(e2.heap, uniformBuf, uniformBufBytes, 8)
         e4 == ensureBuffer(e3.heap, readbackBuf, readbackBufBytes, count * 8)
         h5 == writeBuffer(e4.heap, e1.buf, flat)
         h6 == writeBuffer(h5, e3.buf, <<dims, count>>)
     IN /\ dataBuf' = e1.buf /\ dataBufBytes' = e1.bytes
        /\ resultBuf' = e2.buf /\ resultBufBytes' = e2.bytes
        /\ uniformBuf' = e3.buf /\ uniformBufBytes' = e3.bytes
        /\ readbackBuf' = e4.buf /\ readbackBufBytes' = e4.bytes
        /\ gpuBuffers' = h6
        /\ slotLivePeak' =
             Max(Max(slotLivePeak, e1.peak), Max(Max(e2.peak, e3.peak), e4.peak))
        /\ submitted' = [dataBuf |-> e1.buf, resultBuf |-> e2.buf,
                         uniformBuf |-> e3.buf, readbackBuf |-> e4.buf,
                         groups |-> groupCount(count), copyBytes |-> count * 8]
  /\ steps' = steps \o submitSteps
  /\ pc' = "awaitWork"
  /\ UNCHANGED <<data, attrs, cpuResult, gpuResult, touched, ref, presented, alt, domRes, probe>>
  /\ UNCHANGED <<gpuEnv, acquisitions, mapAttempts, failure, appVars>>

\* getGPUState() is rejected, now or by an earlier call: no navigator.gpu, no
\* adapter, or requestDevice rejected.  The call throws.
GPUStateRejected ==
  /\ pc = "awaitState"
  /\ \/ gpuStatePromise = "rejected"
     \/ gpuStatePromise = "pending" /\ acquire(gpuEnv) = "rejected"
  /\ gpuStatePromise' = "rejected"
  /\ gpuResult' = onFailure(data, attrs)
  /\ pc' = "failed"
  /\ failure' = "state"
  /\ UNCHANGED <<data, attrs, cpuResult, bufVars, gpuBuffers, submitted,
                 touched, ref, presented, alt, domRes, probe>>
  /\ UNCHANGED <<gpuEnv, acquisitions, devices, mapAttempts, steps, slotLivePeak, appVars>>

\* The device has executed the submitted work; onSubmittedWorkDone resolves
\* and the call asks for the mapping of readbackBuf.
GPUWorkDone ==
  /\ pc = "awaitWork"
  /\ gpuBuffers' = [execute(gpuBuffers, submitted) EXCEPT ![readbackBuf].mapped = "pending"]
  /\ submitted' = NoCmd
  /\ mapAttempts' = 1
  /\ steps' = steps \o waitSteps
  /\ pc' = "awaitMap"
  /\ UNCHANGED <<data, attrs, cpuResult, gpuResult, gpuStatePromise, bufVars,
                 touched, ref, presented, alt, domRes, probe>>
  /\ UNCHANGED <<gpuEnv, acquisitions, devices, slotLivePeak, failure, appVars>>

\* mapAsync rejects and leaves readbackBuf unmapped.  The first time the call
\* unmaps and asks again; the second time it throws.
GPUMapFailed ==
  /\ pc = "awaitMap"
  /\ gpuBuffers[readbackBuf].mapped = "pending"
  /\ IF onMapFailure(mapAttempts) = "retry"
     THEN /\ mapAttempts' = mapAttempts + 1
          /\ steps' = steps \o retrySteps
          /\ UNCHANGED <<gpuBuffers, gpuResult, pc, failure>>
     ELSE /\ gpuBuffers' = [gpuBuffers EXCEPT ![readbackBuf].mapped = "unmapped"]
          /\ steps' = Append(steps, "mapFailed")
          /\ gpuResult' = onFailure(data, attrs)
          /\ pc' = "failed"
          /\ failure' = "map"
          /\ UNCHANGED mapAttempts
  /\ UNCHANGED <<data, attrs, cpuResult, gpuStatePromise, bufVars, submitted,
                 touched, ref, presented, alt, domRes, probe>>
  /\ UNCHANGED <<gpuEnv, acquisitions, devices, slotLivePeak, appVars>>

\* mapAsync resolves: getMappedRange, the decoding loop, unmap, return.
GPUMapped ==
  /\ pc = "awaitMap"
  /\ gpuBuffers[readbackBuf].mapped = "pending"
  /\ ~gpuBuffers[readbackBuf].destroyed
  /\ \E t \in Elapsed :
       gpuResult' = Timed(decode(data, gpuBuffers[readbackBuf].words), t)
  /\ gpuBuffers' = unmap(resolveMap(gpuBuffers, readbackBuf), readbackBuf)
  /\ steps' = steps \o readSteps
  /\ pc' = "done"
  /\ UNCHANGED <<data, attrs, cpuResult, gpuStatePromise, bufVars, submitted,
                 touched, ref, presented, alt, domRes, probe>>
  /\ UNCHANGED <<gpuEnv, acquisitions, devices, mapAttempts, slotLivePeak, failure, appVars>>

----------------------------------------------------------------------------
(* Spec: one input, each backend called on it from the freshly loaded module *)

Inputs == (UNION { DataSets(n) : n \in 0..MaxN }) \cup {WorkedExample}

Init ==
  /\ data \in Inputs
  /\ attrs \in AttrLists
  /\ alt = data
  /\ InitModule
  /\ probe = NoProbe
  /\ EnvOk

Next == CallCPU \/ GPUStart \/ GPUStateResolved \/ GPUWorkDone \/ GPUMapped

Spec == Init /\ [][Next]_vars

----------------------------------------------------------------------------
(* SpecDom: the dominance predicates applied to a pair of records *)

\* dominates both ways and on each record with itself, and the kernel's flags
\* for the pair of work-items (0, 1) over the flattened input.
EvalDominates ==
  /\ ~domRes.set
  /\ Len(data) = 2
  /\ LET f == kernelPair(flatten(data, attrs), 0, 1, Len(attrs))
     IN domRes' = [set |-> TRUE,
                   ab |-> dominates(data[1], data[2], attrs),
                   ba |-> dominates(data[2], data[1], attrs),
                   aa |-> dominates(data[1], data[1], attrs),
                   bb |-> dominates(data[2], data[2], attrs),
                   kab |-> f.i_be_j /\ f.i_s_j,
                   kba |-> f.j_be_i /\ f.j_s_i]
  /\ UNCHANGED <<data, attrs, cpuResult, gpuResult, pc, modVars, touched, ref, presented, alt,
                 probe>>
  /\ UNCHANGED <<gpuEnv, obsVars, appVars>>

InitDom ==
  /\ data \in DataSets(2) \cup {InfExample}
  /\ attrs \in AttrLists
  /\ alt = data
  /\ InitModule
  /\ probe = NoProbe
  /\ EnvOk

NextDom == EvalDominates

SpecDom == InitDom /\ [][NextDom]_vars

----------------------------------------------------------------------------
(* Serialized calls on changing inputs *)

\* Bookkeeping: keep the input and both results of the finished calls.
Remember ==
  /\ ~ref.set
  /\ pc = "done" /\ Has(cpuResult) /\ Has(gpuResult)
  /\ ref' = [set |-> TRUE, data |-> data, attrs |-> attrs,
             cpu |-> Timed(cpuResult, 0), gpu |-> Timed(gpuResult, 0)]
  /\ UNCHANGED <<data, attrs, cpuResult, gpuResult, pc, modVars, touched, presented, alt, domRes, probe>>
  /\ UNCHANGED <<gpuEnv, obsVars, appVars>>

\* The caller presents d, as for the next calls; no WebGPU call is running.
Present(d, as) ==
  /\ pc \in {"idle", "done", "failed"}
  /\ presented < MaxCalls
  /\ presented' = presented + 1
  /\ data' = d
  /\ attrs' = as
  /\ cpuResult' = NoResult
  /\ gpuResult' = NoResult
  /\ pc' = "idle"
  /\ mapAttempts' = 0
  /\ steps' = <<>>
  /\ failure' = "none"
  /\ UNCHANGED <<modVars, touched, ref, alt, domRes, probe>>
  /\ UNCHANGED <<gpuEnv, acquisitions, devices, slotLivePeak, appVars>>

----------------------------------------------------------------------------
(* SpecFrame: two inputs that agree on the active attributes *)

MaxFrameN == 2

AgreeOnActive(d1, d2, as) ==
  /\ Len(d1) = Len(d2)
  /\ \A i \in DOMAIN d1 :
       /\ d1[i].id = d2[i].id
       /\ \A k \in DOMAIN as : d1[i][as[k].key] = d2[i][as[k].key]

\* Inputs with the same ids as d that agree with d on the active attributes;
\* the inactive attributes are free and the names are kept or all changed.
Variants(d, as) ==
  { [i \in DOMAIN d |-> MkPoint(i, nm, vs[i])] :
      nm \in {"n", "m"},
      vs \in { ws \in [DOMAIN d -> PointVals] :
                 \A i \in DOMAIN d : \A k \in DOMAIN as :
                   ws[i][as[k].key] = d[i][as[k].key] } }

\* The caller presents the second input.
UseAlt ==
  /\ ref.set
  /\ data # alt
  /\ Present(alt, attrs)

InitFrame ==
  /\ data \in UNION { DataSets(n) : n \in 1..MaxFrameN }
  /\ attrs \in { as \in AttrLists : Len(as) > 0 }
  /\ alt \in Variants(data, attrs)
  /\ InitModule
  /\ probe = NoProbe
  /\ EnvOk

NextFrame ==
  CallCPU \/ GPUStart \/ GPUStateResolved \/ GPUWorkDone \/ GPUMapped
    \/ Remember \/ UseAlt

SpecFrame == InitFrame /\ [][NextFrame]_vars

----------------------------------------------------------------------------
(* SpecReuse: a sequence of serialized calls of varying N and D *)

\* n records, ordered by pace and incomparable once shoot is active.
Staircase(n) == [i \in 1..n |-> MkPoint(i, "n", [pace |-> Num(i), shoot |-> Num(n - i)])]

ReuseData == { Staircase(n) : n \in 0..MaxN }
ReuseAttrs == { <<>>, <<Attr("pace")>>, <<Attr("pace"), Attr("shoot")>> }

NewInput == \E d \in ReuseData, as \in ReuseAttrs : Present(d, as)

InitReuse ==
  /\ data \in ReuseData
  /\ attrs \in ReuseAttrs
  /\ alt = <<>>
  /\ InitModule
  /\ probe = NoProbe
  /\ EnvOk

NextReuse ==
  CallCPU \/ GPUStart \/ GPUStateResolved \/ GPUWorkDone \/ GPUMapped
    \/ Remember \/ NewInput

SpecReuse == InitReuse /\ [][NextReuse]_vars

----------------------------------------------------------------------------
(* SpecFail: serialized WebGPU calls in a browser whose offer changes, with  *)
(* mappings that may fail                                                    *)

\* The browser's offer changes: a GPU is enabled or lost, a context changes.
\* The module looks at it when a call starts and when the acquisition
\* settles, so the changes are taken before those points.
EnvChange ==
  /\ pc \in {"idle", "awaitState"}
  /\ \E e \in EnvLevels \ {gpuEnv} : gpuEnv' = e
  /\ UNCHANGED <<data, attrs, cpuResult, gpuResult, pc, modVars, touched, ref,
                 presented, alt, domRes, probe, obsVars, appVars>>

InitFail ==
  /\ data \in ReuseData
  /\ attrs \in ReuseAttrs
  /\ alt = <<>>
  /\ InitModule
  /\ probe = NoProbe
  /\ gpuEnv \in EnvLevels
  /\ NoApp

NextFail ==
  GPUStart \/ GPUStateResolved \/ GPUStateRejected \/ GPUWorkDone
    \/ GPUMapFailed \/ GPUMapped \/ NewInput \/ EnvChange

SpecFail == InitFail /\ [][NextFail]_vars

----------------------------------------------------------------------------
(* SpecAlloc: serialized WebGPU calls on a device whose createBuffer may     *)
(* throw                                                                     *)

\* getGPUState() has resolved and device.createBuffer throws in the k-th of
\* the four ensureBuffer blocks: the blocks before it have assigned their
\* slots, the k-th has destroyed the slot's old buffer and assigned nothing,
\* the later ones are not reached.  The call throws.
GPUCreateThrows ==
  /\ pc = "awaitState"
  /\ \/ gpuStatePromise = "fulfilled"
     \/ gpuStatePromise = "pending" /\ acquire(gpuEnv) = "fulfilled"
  /\ gpuStatePromise' = "fulfilled"
  /\ devices' = IF gpuStatePromise = "pending" THEN devices + 1 ELSE devices
  /\ LET count == Len(data)
         flat == flatten(data, attrs)
         need == <<Len(flat) * 4, count * 8, 8, count * 8>>
         e1 == ensureBuffer(gpuBuffers, dataBuf, dataBufBytes, need[1])
         e2 == ensureBuffer(e1.heap, resultBuf, resultBufBytes, need[2])
         e3 == ensureBuffer(e2.heap, uniformBuf, uniformBufBytes, need[3])
         heapAt == <<gpuBuffers, e1.heap, e2.heap, e3.heap>>
         bufAt == <<dataBuf, resultBuf, uniformBuf, readbackBuf>>
         bytesAt == <<dataBufBytes, resultBufBytes, uniformBufBytes, readbackBufBytes>>
     IN \E k \in 1..4 :
          /\ mustCreate(bufAt[k], bytesAt[k], need[k])
          /\ gpuBuffers' = ensureBufferThrows(heapAt[k], bufAt[k], bytesAt[k], need[k])
          /\ dataBuf' = IF k > 1 THEN e1.buf ELSE dataBuf
          /\ dataBufBytes' = IF k > 1 THEN e1.bytes ELSE dataBufBytes
          /\ resultBuf' = IF k > 2 THEN e2.buf ELSE resultBuf
          /\ resultBufBytes' = IF k > 2 THEN e2.bytes ELSE resultBufBytes
          /\ uniformBuf' = IF k > 3 THEN e3.buf ELSE uniformBuf
          /\ uniformBufBytes' = IF k > 3 THEN e3.bytes ELSE uniformBufBytes
          /\ UNCHANGED <<readbackBuf, readbackBufBytes>>
          /\ slotLivePeak' =
               Max(slotLivePeak,
                   Max(IF k > 1 THEN e1.peak ELSE 0,
                       Max(IF k > 2 THEN e2.peak ELSE 0, IF k > 3 THEN e3.peak ELSE 0)))
  /\ gpuResult' = onFailure(data, attrs)
  /\ pc' = "failed"
  /\ failure' = "alloc"
  /\ UNCHANGED <<data, attrs, cpuResult, submitted, touched, ref, presented, alt, domRes, probe>>
  /\ UNCHANGED <<gpuEnv, acquisitions, mapAttempts, steps, appVars>>

InitAlloc ==
  /\ data \in ReuseData
  /\ attrs \in ReuseAttrs
  /\ alt = <<>>
  /\ InitModule
  /\ probe = NoProbe
  /\ EnvOk

NextAlloc ==
  GPUStart \/ GPUStateResolved \/ GPUCreateThrows \/ GPUWorkDone
    \/ GPUMapFailed \/ GPUMapped \/ NewInput

SpecAlloc == InitAlloc /\ [][NextAlloc]_vars

----------------------------------------------------------------------------
(* SpecApp: the compute effect of App.tsx                                    *)
(*                                                                           *)
(* Every run of the effect on a non-empty input is a record of reqs: the     *)
(* computeMode it closed over, how far it has come ("timer": setTimeout      *)
(* pending; "awaitState": computeSkylineWebGPU at await getGPUState();       *)
(* "running": between getGPUState and the return; "done"; "failed") and the  *)
(* device its call got.  skylineResult is the index of the run whose result  *)
(* is displayed, 0 for the initial empty result.  The buffers of the calls   *)
(* are not followed here.                                                    *)

MaxReqs == 3

Modes == {"CPU", "WebGPU"}

\* gpuAvailable: navigator.gpu exists.
gpuAvailable(env) == env \notin {"noEnums", "noNavGpu"}

InFlight(r) == reqs[r].mode = "WebGPU" /\ reqs[r].stage \in {"awaitState", "running"}

Finished(r) == reqs[r].stage \in {"done", "failed"}

AppUnused ==
  <<data, attrs, cpuResult, gpuResult, pc, bufVars, gpuBuffers, submitted, touched,
    ref, presented, alt, domRes, probe, mapAttempts, steps, slotLivePeak, failure>>

\* Variant: a failed computation clears the displayed result.
onComputeFailedClear(shown) == 0

\* catch: the error is logged, setSkylineResult is not called.
onComputeFailed(shown) == shown

\* filteredData, activeAttributes or computeMode changed: the effect runs,
\* sets the computing flag and arms a 50 ms timer.  WebGPU can be chosen only
\* while gpuAvailable.
AppChange ==
  /\ Len(reqs) < MaxReqs
  /\ \E m \in Modes :
       /\ m = "WebGPU" => gpuAvailable(gpuEnv)
       /\ reqs' = Append(reqs, [mode |-> m, stage |-> "timer", device |-> 0])
  /\ isComputing' = TRUE
  /\ UNCHANGED <<skylineResult, gpuStatePromise, gpuEnv, acquisitions, devices, AppUnused>>

\* The oldest pending timer fires.  In CPU mode the result is computed and
\* displayed at once; in WebGPU mode computeSkylineWebGPU runs up to its
\* await of getGPUState().
AppTimer ==
  \E r \in DOMAIN reqs :
    /\ reqs[r].stage = "timer"
    /\ \A q \in 1..(r - 1) : reqs[q].stage # "timer"
    /\ IF reqs[r].mode = "WebGPU" /\ gpuAvailable(gpuEnv)
       THEN LET g == getGPUState(gpuStatePromise, gpuEnv)
            IN /\ gpuStatePromise' = g.promise
               /\ acquisitions' = IF g.started THEN acquisitions + 1 ELSE acquisitions
               /\ reqs' = [reqs EXCEPT ![r].stage = "awaitState"]
               /\ UNCHANGED <<skylineResult, isComputing>>
       ELSE /\ reqs' = [reqs EXCEPT ![r].stage = "done"]
            /\ skylineResult' = r
            /\ isComputing' = FALSE
            /\ UNCHANGED <<gpuStatePromise, acquisitions>>
    /\ UNCHANGED <<gpuEnv, devices, AppUnused>>

\* The pending acquisition settles.
AppStateSettled ==
  /\ gpuStatePromise = "pending"
  /\ gpuStatePromise' = acquire(gpuEnv)
  /\ devices' = IF acquire(gpuEnv) = "fulfilled" THEN devices + 1 ELSE devices
  /\ UNCHANGED <<reqs, skylineResult, isComputing, gpuEnv, acquisitions, AppUnused>>

\* A call waiting for getGPUState() gets the cached device and runs on.
AppStateResolved ==
  \E r \in DOMAIN reqs :
    /\ reqs[r].stage = "awaitState"
    /\ gpuStatePromise = "fulfilled"
    /\ reqs' = [reqs EXCEPT ![r].stage = "running", ![r].device = devices]
    /\ UNCHANGED <<skylineResult, isComputing, gpuStatePromise, gpuEnv,
                   acquisitions, devices, AppUnused>>

\* A call waiting for getGPUState() gets the rejection: catch, finally.
AppStateRejected ==
  \E r \in DOMAIN reqs :
    /\ reqs[r].stage = "awaitState"
    /\ gpuStatePromise = "rejected"
    /\ reqs' = [reqs EXCEPT ![r].stage = "failed"]
    /\ skylineResult' = onComputeFailed(skylineResult)
    /\ isComputing' = FALSE
    /\ UNCHANGED <<gpuStatePromise, gpuEnv, acquisitions, devices, AppUnused>>

\* A computeSkylineWebGPU call returns: setSkylineResult, finally.
AppGpuDone ==
  \E r \in DOMAIN reqs :
    /\ reqs[r].stage = "running"
    /\ reqs' = [reqs EXCEPT ![r].stage = "done"]
    /\ skylineResult' = r
    /\ isComputing' = FALSE
    /\ UNCHANGED <<gpuStatePromise, gpuEnv, acquisitions, devices, AppUnused>>

\* A computeSkylineWebGPU call throws after getGPUState (the mapping failed
\* twice): catch, finally.
AppGpuFailed ==
  \E r \in DOMAIN reqs :
    /\ reqs[r].stage = "running"
    /\ reqs' = [reqs EXCEPT ![r].stage = "failed"]
    /\ skylineResult' = onComputeFailed(skylineResult)
    /\ isComputing' = FALSE
    /\ UNCHANGED <<gpuStatePromise, gpuEnv, acquisitions, devices, AppUnused>>

\* The adapter or the device comes or goes; navigator.gpu itself does not.
AppEnvChange ==
  /\ gpuAvailable(gpuEnv)
  /\ \E e \in EnvLevels \ {gpuEnv} : gpuAvailable(e) /\ gpuEnv' = e
  /\ UNCHANGED <<reqs, skylineResult, isComputing, gpuStatePromise,
                 acquisitions, devices, AppUnused>>

InitApp ==
  /\ data = <<>>
  /\ attrs = <<>>
  /\ alt = <<>>
  /\ InitModule
  /\ probe = NoProbe
  /\ gpuEnv \in EnvLevels
  /\ NoApp

NextApp ==
  AppChange \/ AppTimer \/ AppStateSettled \/ AppStateResolved \/ AppStateRejected
    \/ AppGpuDone \/ AppGpuFailed \/ AppEnvChange

SpecApp == InitApp /\ [][NextApp]_vars

----------------------------------------------------------------------------
(* SpecDispatch: one dispatch over N records in buffers of any capacity      *)

MaxCount == 66
MaxRows == 2

\* The word a results buffer holds before the dispatch: none is a counter.
Sentinel(w) == 1000 + w

\* N records of one dimension, in buffers with room for cap records; the
\* words behind the N records are left over from an earlier call.
DispatchInputs ==
  { [set |-> FALSE, count |-> n, cap |-> n + x, period |-> m] :
      n \in 1..MaxCount, x \in {0, 1, WorkgroupSize}, m \in {2, 3} }

\* The compute pass of a call on probe.count records: dispatchWorkgroups with
\* the host's group count, the kernel on every work-item.
EvalDispatch ==
  /\ ~probe.set
  /\ LET dataWords == [w \in 1..probe.cap |-> w % probe.period]
         before == [w \in 1..(2 * probe.cap) |-> Sentinel(w)]
         groups == groupCount(probe.count)
     IN probe' = [set |-> TRUE, count |-> probe.count, cap |-> probe.cap,
                  period |-> probe.period, dataWords |-> dataWords,
                  before |-> before, groups |-> groups,
                  after |-> dispatch(dataWords, before, <<1, probe.count>>, groups)]
  /\ UNCHANGED <<data, attrs, cpuResult, gpuResult, pc, modVars, touched, ref, presented,
                 alt, domRes, gpuEnv, obsVars, appVars>>

InitDispatch ==
  /\ data = <<>>
  /\ attrs = <<>>
  /\ alt = <<>>
  /\ InitModule
  /\ EnvOk
  /\ probe \in DispatchInputs

NextDispatch == EvalDispatch

SpecDispatch == InitDispatch /\ [][NextDispatch]_vars

----------------------------------------------------------------------------
(* SpecColor: computeColorMapND on one record                                *)
(*                                                                           *)
(* Numbers are counted in units of 1 / ColorScale.  The attributes span the  *)
(* range 0 .. ColorScale, so that a normalized value is the value itself,    *)
(* and their angles are quarter turns, whose cosine and sine are 0, 1 or -1. *)
(* A color stands for itself when fixed; one computed from the vector is     *)
(* given by the vector and the number of attributes it is computed from.     *)

ColorScale == 10 ^ 3

\* 0.01
ColorThreshold == ColorScale \div 100

QuarterTurns == 0..3
cos(q) == IF q = 0 THEN 1 ELSE IF q = 2 THEN -1 ELSE 0
sin(q) == IF q = 1 THEN 1 ELSE IF q = 3 THEN -1 ELSE 0

ColorAttr(key, q) == [key |-> key, min |-> 0, max |-> ColorScale, angle |-> q]

RECURSIVE colorSum(_, _, _, _)
\* attributes.forEach: x, y and totalNorm after the attributes from k on.
colorSum(point, attributes, k, acc) ==
  IF k > Len(attributes) THEN acc
  ELSE LET attr == attributes[k]
           val == OrZero(point[attr.key]).n
           norm == ((val - attr.min) * ColorScale) \div Max(1, attr.max - attr.min)
       IN colorSum(point, attributes, k + 1,
                   [x |-> acc.x + cos(attr.angle) * norm,
                    y |-> acc.y + sin(attr.angle) * norm,
                    totalNorm |-> acc.totalNorm + norm])

\* d3.hcl(0, 0, 30)
FallbackColor == [kind |-> "hcl(0,0,30)"]

computeColorMapND(point, attributes) ==
  IF Len(attributes) = 0 THEN [kind |-> "#475569"]
  ELSE LET s == colorSum(point, attributes, 1, [x |-> 0, y |-> 0, totalNorm |-> 0])
       IN IF s.totalNorm < ColorThreshold
          THEN FallbackColor
          ELSE [kind |-> "hcl(hue,chroma,60)", x |-> s.x, y |-> s.y,
                dims |-> Len(attributes)]

\* Records with values 0, 0.002 and 1 of the range, NaN included.
ColorVals == {NaN, Num(0), Num(ColorScale \div 500), Num(ColorScale)}
ColorPoints ==
  { MkPoint(1, "n", v) : v \in [Keys -> ColorVals] }

\* Non-empty lists of distinct attributes, each at some quarter turn.
ColorAttrLists ==
  { [i \in DOMAIN as |-> ColorAttr(as[i].key, q[i])] :
      as \in { l \in AttrLists : Len(l) > 0 }, q \in [1..2 -> QuarterTurns] }

\* The rendering layer asks for the color of a record.
EvalColor ==
  /\ ~probe.set
  /\ probe' = [set |-> TRUE, point |-> probe.point, attributes |-> probe.attributes,
               color |-> computeColorMapND(probe.point, probe.attributes)]
  /\ UNCHANGED <<data, attrs, cpuResult, gpuResult, pc, modVars, touched, ref, presented,
                 alt, domRes, gpuEnv, obsVars, appVars>>

InitColor ==
  /\ data = <<>>
  /\ attrs = <<>>
  /\ alt = <<>>
  /\ InitModule
  /\ EnvOk
  /\ probe \in { [set |-> FALSE, point |-> p, attributes |-> as] :
                    p \in ColorPoints, as \in ColorAttrLists }

NextColor == EvalColor

SpecColor == InitColor /\ [][NextColor]_vars

----------------------------------------------------------------------------
(* SpecIngest: processUploadedData on the parsed rows of a file              *)
(*                                                                           *)
(* The id cell of a row is absent ("none"), a number or a string; the rows   *)
(* have the numeric columns pace and shoot.                                  *)

NoId == [k |-> "none"]
NumId(n) == [k |-> "num", n |-> n]
StrId(str) == [k |-> "str", s |-> str]

\* String(n) for the numbers of the model.
NumberToString(n) == IF n = 0 THEN "0" ELSE "7"

\* `item-${i}`
ItemId(i) == <<"item-0", "item-1", "item-2", "item-3", "item-4", "item-5">>[i + 1]

\* row.id ? ... : ...  -- absent, 0 and "" are falsy.
Truthy(id) ==
  \/ id.k = "num" /\ id.n # 0
  \/ id.k = "str" /\ id.s # ""

\* String(row.id)
StringOf(id) == IF id.k = "num" THEN NumberToString(id.n) ELSE id.s

\* rawData.map((row, i) => ...): the records, i counting from 0.
processUploadedData(rawData) ==
  [r \in 1..Len(rawData) |->
     LET row == rawData[r]
         i == r - 1
     IN [id |-> IF Truthy(row.id) THEN StringOf(row.id) ELSE ItemId(i),
         name |-> row.name,
         pace |-> OrZero(row.pace),
         shoot |-> OrZero(row.shoot)]]

IdCells == {NoId, NumId(0), NumId(7), StrId(""), StrId("7"), StrId("item-1"), StrId("A")}

RawRows ==
  { [id |-> c, name |-> "n", pace |-> v, shoot |-> Num(1)] :
      c \in IdCells, v \in {NaN, Num(1)} }

RawData == UNION { [1..n -> RawRows] : n \in 1..MaxRows }

\* A file is uploaded and ingested.
EvalIngest ==
  /\ ~probe.set
  /\ probe' = [set |-> TRUE, rawData |-> probe.rawData,
               data |-> processUploadedData(probe.rawData)]
  /\ UNCHANGED <<data, attrs, cpuResult, gpuResult, pc, modVars, touched, ref, presented,
                 alt, domRes, gpuEnv, obsVars, appVars>>

InitIngest ==
  /\ data = <<>>
  /\ attrs = <<>>
  /\ alt = <<>>
  /\ InitModule
  /\ EnvOk
  /\ probe \in { [set |-> FALSE, rawData |-> rd] : rd \in RawData }

NextIngest == EvalIngest

SpecIngest == InitIngest /\ [][NextIngest]_vars

----------------------------------------------------------------------------
(* Claims *)

SameCounts(r1, r2) ==
  /\ r1.skylineIds = r2.skylineIds
  /\ r1.dominanceScores = r2.dominanceScores
  /\ r1.dominatedBy = r2.dominatedBy

\* C1: for records with unique ids and a non-empty active attribute list the
\* two backends return the same skylineIds, dominanceScores and dominatedBy.
C1_BackendAgreement ==
  (Has(cpuResult) /\ Has(gpuResult) /\ Len(attrs) > 0) => SameCounts(cpuResult, gpuResult)

SkylineIffZero(r) ==
  /\ r.skylineIds \subseteq Ids(data)
  /\ \A p \in Ids(data) :
       p \in r.skylineIds <=> (p \in DOMAIN r.dominatedBy /\ r.dominatedBy[p] = 0)

\* C2: in a result of either backend an id is in skylineIds exactly when its
\* dominatedBy count is zero.
C2_SkylineIffZero ==
  /\ Has(cpuResult) => SkylineIffZero(cpuResult)
  /\ Has(gpuResult) => SkylineIffZero(gpuResult)

Mixed(r) == r.skylineIds # {} /\ r.skylineIds # Ids(data)
C2_Witness == Has(cpuResult) /\ Has(gpuResult) /\ Mixed(cpuResult) /\ Mixed(gpuResult)

ScoreBound(r) ==
  \A p \in DOMAIN r.dominatedBy :
    r.dominanceScores[p] + r.dominatedBy[p] <= Len(data) - 1

\* C3: in a result for N records every record has
\* dominanceScores + dominatedBy <= N - 1.
C3_ScoreBound ==
  /\ Has(cpuResult) => ScoreBound(cpuResult)
  /\ Has(gpuResult) => ScoreBound(gpuResult)

Tight(r) ==
  \E p \in DOMAIN r.dominatedBy :
    /\ r.dominanceScores[p] + r.dominatedBy[p] = Len(data) - 1
    /\ r.dominanceScores[p] > 0 /\ r.dominatedBy[p] > 0
C3_Witness == Has(cpuResult) /\ Has(gpuResult) /\ Tight(cpuResult) /\ Tight(gpuResult)

EqualOnActive(a, b, as) == \A k \in DOMAIN as : a[as[k].key] = b[as[k].key]

\* C4: dominance is irreflexive and antisymmetric, in the serial predicate and
\* in the kernel's inline one, and records equal on all active attributes
\* dominate each other in neither direction.
C4_PartialOrder ==
  domRes.set =>
    /\ ~domRes.aa /\ ~domRes.bb
    /\ ~(domRes.ab /\ domRes.ba)
    /\ ~(domRes.kab /\ domRes.kba)
    /\ EqualOnActive(data[1], data[2], attrs) =>
         (~domRes.ab /\ ~domRes.ba /\ ~domRes.kab /\ ~domRes.kba)

C4_Witness ==
  /\ domRes.set /\ Len(attrs) = 2
  /\ EqualOnActive(data[1], data[2], attrs)
  /\ data[1]["pace"] # NaN

\* The number a value counts as: a missing or non-numeric value counts as 0.
NumberOf(v) == IF v.k = "nan" THEN 0 ELSE Rank(v)
\* a dominates b: no worse on every active attribute, better on at least one.
DominatesDef(a, b, as) ==
  /\ \A k \in DOMAIN as : NumberOf(a[as[k].key]) >= NumberOf(b[as[k].key])
  /\ \E k \in DOMAIN as : NumberOf(a[as[k].key]) > NumberOf(b[as[k].key])

\* C5: in the result of computeSkylineCPU, dominanceScores[p] is the number of
\* other records p dominates and dominatedBy[p] the number of other records
\* that dominate p.
C5_CpuCounts ==
  Has(cpuResult) =>
    \A i \in DOMAIN data :
      /\ cpuResult.dominanceScores[data[i].id] =
           Cardinality({ j \in DOMAIN data \ {i} : DominatesDef(data[i], data[j], attrs) })
      /\ cpuResult.dominatedBy[data[i].id] =
           Cardinality({ j \in DOMAIN data \ {i} : DominatesDef(data[j], data[i], attrs) })

C5_Witness ==
  /\ Has(cpuResult) /\ Len(data) = 3 /\ Len(attrs) = 2
  /\ cpuResult.dominanceScores[data[1].id] = 2
  /\ cpuResult.dominatedBy[data[3].id] = 1
  /\ data[2]["pace"] = NaN

\* C7: the worked example: skylineIds = {A, B}, dominanceScores = {A:1, B:1,
\* C:0}, dominatedBy = {A:0, B:0, C:2}.
C7_WorkedExample ==
  (Has(cpuResult) /\ data = WorkedExample /\ attrs = <<Attr("pace"), Attr("shoot")>>) =>
    /\ cpuResult.skylineIds = {"A", "B"}
    /\ cpuResult.dominanceScores = [p \in {"A", "B", "C"} |-> IF p = "C" THEN 0 ELSE 1]
    /\ cpuResult.dominatedBy = [p \in {"A", "B", "C"} |-> IF p = "C" THEN 2 ELSE 0]

C7_Witness ==
  Has(cpuResult) /\ data = WorkedExample /\ attrs = <<Attr("pace"), Attr("shoot")>>

\* C9: the serial backend called with no records returns the empty skyline
\* set, empty maps and computationTime 0.
C9_CpuEmpty ==
  (Has(cpuResult) /\ Len(data) = 0) =>
    /\ cpuResult.skylineIds = {}
    /\ DOMAIN cpuResult.dominanceScores = {}
    /\ DOMAIN cpuResult.dominatedBy = {}
    /\ cpuResult.computationTime = 0

C9_Witness == Has(cpuResult) /\ Len(data) = 0 /\ Len(attrs) > 0

SameAsRef ==
  /\ Has(cpuResult) => SameCounts(cpuResult, ref.cpu)
  /\ Has(gpuResult) => SameCounts(gpuResult, ref.gpu)

\* C6: two inputs whose records agree on every active attribute, whatever
\* their inactive attributes and names, get the same skylineIds,
\* dominanceScores and dominatedBy from both backends.
C6_ActiveOnly ==
  (ref.set /\ ref.attrs = attrs /\ AgreeOnActive(ref.data, data, attrs)) => SameAsRef

C6_Witness ==
  /\ ref.set /\ ref.attrs = attrs /\ AgreeOnActive(ref.data, data, attrs)
  /\ Has(cpuResult) /\ Has(gpuResult)
  /\ Len(data) = 2 /\ Len(attrs) = 1
  /\ \A i \in DOMAIN data :
       data[i].name # ref.data[i].name /\ \E key \in Keys : data[i][key] # ref.data[i][key]
  /\ Mixed(gpuResult)

\* C8: calling a backend again on unchanged records and active attributes
\* gives the same skylineIds, dominanceScores and dominatedBy, also after
\* serialized calls on other inputs that left larger buffers behind.
C8_Idempotent ==
  (ref.set /\ ref.data = data /\ ref.attrs = attrs) => SameAsRef

C8_Witness ==
  /\ ref.set /\ ref.data = data /\ ref.attrs = attrs
  /\ Has(cpuResult) /\ Has(gpuResult)
  /\ Len(data) = 2 /\ Len(attrs) = 1
  /\ dataBufBytes > Len(data) * Len(attrs) * 4
  /\ readbackBufBytes > Len(data) * 8
  /\ \E w \in DOMAIN gpuBuffers[readbackBuf].words :
       w > Len(data) * 2 /\ gpuBuffers[readbackBuf].words[w] # 0

\* C10: a WebGPU call with N = 0 or D = 0 returns the empty result at once and
\* leaves the cached device state, the four buffer slots and the device's
\* buffers untouched.
C10_DegenerateNoTouch ==
  [][ (pc = "idle" /\ pc' # "idle" /\ (Len(data) = 0 \/ Len(attrs) = 0)) =>
        /\ pc' = "done"
        /\ \E t \in Elapsed : gpuResult' = Timed(EmptyResult("WebGPU"), t)
        /\ ~touched'
        /\ UNCHANGED modVars ]_vars

C10_Witness ==
  /\ pc = "done" /\ Has(gpuResult) /\ ~touched
  /\ Len(data) > 0 /\ Len(attrs) = 0
  /\ gpuStatePromise = "fulfilled" /\ readbackBuf # 0

----------------------------------------------------------------------------
(* Device acquisition and failures *)

\* C11: a failed acquisition is not cached: a call that finds the cached
\* promise rejected starts a fresh acquisition.
C11_FailureNotCached ==
  [][ (pc = "idle" /\ pc' = "awaitState" /\ gpuStatePromise = "rejected") =>
        /\ acquisitions' = acquisitions + 1
        /\ gpuStatePromise' # gpuStatePromise ]_vars

\* The call returned what the serial backend computes on the same input.
NormalResult(r) ==
  /\ r.method = "WebGPU"
  /\ SameCounts(r, computeSkylineCPU(data, attrs))

\* C13: the mapping of readbackBuf is retried exactly once: a first failed
\* mapAsync is followed by unmap and a second mapAsync; a mapping that
\* succeeds, first or second, ends in a normal result; a second failure ends
\* the call without a result and without a third attempt.
C13_MapRetriedOnce ==
  [][ (pc = "awaitMap" /\ steps' # steps) =>
        \/ /\ pc' = "done"
           /\ NormalResult(gpuResult')
           /\ mapAttempts' = mapAttempts
        \/ /\ mapAttempts = 1
           /\ pc' = "awaitMap"
           /\ mapAttempts' = 2
           /\ steps' = steps \o <<"mapFailed", "unmap", "mapAsync">>
           /\ gpuBuffers'[readbackBuf].mapped = "pending"
           /\ ~Has(gpuResult')
        \/ /\ mapAttempts = 2
           /\ pc' = "failed"
           /\ mapAttempts' = 2
           /\ ~Has(gpuResult') ]_vars

C13_Witness ==
  /\ pc = "done" /\ mapAttempts = 2
  /\ Len(data) >= 2 /\ Len(attrs) = 2
  /\ Cardinality(gpuResult.skylineIds) = Len(data)
  /\ presented > 1

\* The browser offers no device to an acquisition that starts or settles now.
CapabilityAbsent == gpuEnv # "ok"

\* C14: the WebGPU backend never falls back on its own: on a non-degenerate
\* input, a call that finds the enums missing, or whose acquisition starts or
\* settles without the capability, throws; it returns no result and the
\* serial backend is not run.
C14_NoFallback ==
  [][ /\ (pc = "idle" /\ pc' # "idle" /\ ~isDegenerate(data, attrs)
            /\ ~getWebGPUEnums(gpuEnv)) =>
          (pc' = "failed" /\ ~Has(gpuResult') /\ gpuStatePromise' = gpuStatePromise)
      /\ (pc = "idle" /\ pc' # "idle" /\ ~isDegenerate(data, attrs)
            /\ getWebGPUEnums(gpuEnv) /\ CapabilityAbsent /\ gpuStatePromise = "null") =>
          (pc' = "awaitState" /\ gpuStatePromise' \in {"pending", "rejected"})
      /\ (pc = "awaitState" /\ pc' # pc /\ CapabilityAbsent
            /\ gpuStatePromise \in {"pending", "rejected"}) =>
          (pc' = "failed" /\ ~Has(gpuResult') /\ gpuStatePromise' = "rejected")
      /\ (pc' = "failed") => (~Has(gpuResult') /\ gpuResult'.method # "CPU")
      /\ (pc' # pc /\ pc' # "idle") => cpuResult' = cpuResult ]_vars

C14_Witness ==
  /\ pc = "failed" /\ failure = "state"
  /\ CapabilityAbsent
  /\ Len(data) >= 2 /\ Len(attrs) >= 1
  /\ ~Has(gpuResult) /\ ~Has(cpuResult)
  /\ devices = 0

----------------------------------------------------------------------------
(* Buffer slots *)

\* What ensureBuffer is to do with one slot, given the bytes the call needs.
SlotPolicy(buf, bytes, bufAfter, bytesAfter, need) ==
  IF buf # 0 /\ bytes >= need
  THEN /\ bufAfter = buf
       /\ bytesAfter = bytes
       /\ ~gpuBuffers'[buf].destroyed
  ELSE /\ buf # 0 => gpuBuffers'[buf].destroyed
       /\ bufAfter \notin DOMAIN gpuBuffers
       /\ bufAfter \in DOMAIN gpuBuffers'
       /\ ~gpuBuffers'[bufAfter].destroyed
       /\ gpuBuffers'[bufAfter].size = need
       /\ bytesAfter = need

\* C18: a slot's buffer is kept when its recorded capacity covers the bytes
\* the call needs; otherwise it is destroyed and replaced by a new buffer of
\* exactly the needed size.  No slot's capacity ever decreases.
C18_ReusePolicy ==
  [][ /\ (pc = "awaitState" /\ pc' = "awaitWork") =>
          /\ SlotPolicy(dataBuf, dataBufBytes, dataBuf', dataBufBytes',
                        Len(data) * Len(attrs) * 4)
          /\ SlotPolicy(resultBuf, resultBufBytes, resultBuf', resultBufBytes',
                        Len(data) * 8)
          /\ SlotPolicy(uniformBuf, uniformBufBytes, uniformBuf', uniformBufBytes', 8)
          /\ SlotPolicy(readbackBuf, readbackBufBytes, readbackBuf', readbackBufBytes',
                        Len(data) * 8)
      /\ ~(pc = "awaitState" /\ pc' = "awaitWork") => UNCHANGED bufVars
      /\ dataBufBytes' >= dataBufBytes
      /\ resultBufBytes' >= resultBufBytes
      /\ uniformBufBytes' >= uniformBufBytes
      /\ readbackBufBytes' >= readbackBufBytes ]_vars

C18_Witness ==
  /\ pc = "awaitWork"
  /\ dataBufBytes > Len(data) * Len(attrs) * 4
  /\ readbackBufBytes > Len(data) * 8
  /\ \E h \in DOMAIN gpuBuffers : gpuBuffers[h].destroyed
  /\ ~gpuBuffers[dataBuf].destroyed

Slots == {dataBuf, resultBuf, uniformBuf, readbackBuf} \ {0}

LiveBuffers == { h \in DOMAIN gpuBuffers : ~gpuBuffers[h].destroyed }

\* C19: no slot ever has two live buffers, the old buffer being destroyed
\* before the new one is created; the live buffers are the slots' current
\* buffers, at most four.
C19_OneLivePerSlot ==
  /\ slotLivePeak <= 1
  /\ LiveBuffers = Slots
  /\ Cardinality(LiveBuffers) <= 4
  /\ (dataBuf # 0) =>
       Cardinality({dataBuf, resultBuf, uniformBuf, readbackBuf}) = 4

C19_Witness ==
  /\ Cardinality(LiveBuffers) = 4
  /\ Cardinality({ h \in DOMAIN gpuBuffers : gpuBuffers[h].destroyed }) >= 3
  /\ slotLivePeak = 1
  /\ pc = "done"

----------------------------------------------------------------------------
(* Order of the device operations of one call *)

Did(a) == \E i \in DOMAIN steps : steps[i] = a

\* Every occurrence of b in the call's operations comes after an a.
Before(a, b) ==
  \A i \in DOMAIN steps : steps[i] = b => \E j \in 1..(i - 1) : steps[j] = a

\* C20: within one non-degenerate call the input and the uniforms are written
\* before the dispatch, the dispatch comes before the copy to the staging
\* buffer, the copy before the wait for the device, the wait before the
\* mapping, the mapping before the decoding, the decoding before the final
\* unmap; nothing is decoded before the device has finished and the mapping
\* has succeeded, and a call that returns a result has done all of it.
C20_StepOrder ==
  /\ Before("writeData", "dispatch")
  /\ Before("writeUniform", "dispatch")
  /\ Before("dispatch", "copy")
  /\ Before("copy", "submit")
  /\ Before("submit", "workDone")
  /\ Before("workDone", "mapAsync")
  /\ Before("mapAsync", "mapped")
  /\ Before("workDone", "decode")
  /\ Before("mapped", "decode")
  /\ Before("mapAsync", "unmap")
  /\ (pc = "done" /\ ~isDegenerate(data, attrs)) =>
       /\ Did("decode")
       /\ steps[Len(steps)] = "unmap"
       /\ steps[Len(steps) - 1] = "decode"
  /\ (pc \in {"idle", "awaitState"} \/ isDegenerate(data, attrs)) => steps = <<>>
  /\ Did("decode") => (pc = "done" /\ Has(gpuResult))
  /\ pc = "awaitWork" =>
       (submitted # NoCmd /\ gpuBuffers[readbackBuf].mapped = "unmapped")
  /\ (readbackBuf # 0 /\ gpuBuffers[readbackBuf].mapped # "unmapped") =>
       (submitted = NoCmd /\ pc = "awaitMap" /\ Did("workDone"))
  /\ \A i, j \in DOMAIN steps :
       (steps[i] = steps[j] /\ steps[i] \notin {"mapAsync", "mapFailed", "unmap"}) => i = j

C20_Witness ==
  /\ pc = "done"
  /\ Did("decode") /\ Did("mapFailed")
  /\ Len(data) >= 2 /\ Len(attrs) = 2
  /\ presented > 1

----------------------------------------------------------------------------
(* The orchestrator *)

\* C12: at most one device is ever created; once the acquisition has
\* succeeded no further acquisition is started and no device, queue or
\* pipeline is created, however the calls follow or overlap each other, and
\* every call that gets past getGPUState() uses that one device.
C12_OneHandle ==
  [][ /\ devices' <= 1
      /\ gpuStatePromise = "fulfilled" =>
           /\ gpuStatePromise' = "fulfilled"
           /\ acquisitions' = acquisitions
           /\ devices' = devices
      /\ \A r \in DOMAIN reqs' :
           (reqs'[r].mode = "WebGPU" /\ reqs'[r].stage \in {"running", "done"}) =>
             (reqs'[r].device = 1 /\ devices' = 1) ]_vars

C12_Witness ==
  /\ Len(reqs) >= 3
  /\ reqs[1].stage = "done" /\ reqs[1].mode = "WebGPU"
  /\ reqs[2].stage = "running" /\ reqs[3].stage = "running"
  /\ acquisitions = 1 /\ devices = 1

\* C15: when a computation started by the orchestrator fails, the displayed
\* skylineResult stays as it was and the computing flag is cleared.
C15_FailureKeepsResult ==
  [][ (\E r \in DOMAIN reqs : reqs[r].stage # "failed" /\ reqs'[r].stage = "failed") =>
        (skylineResult' = skylineResult /\ isComputing' = FALSE) ]_vars

C15_Witness ==
  /\ Len(reqs) >= 2
  /\ reqs[1].stage = "done" /\ skylineResult = 1
  /\ reqs[2].stage = "failed" /\ reqs[2].device = 1
  /\ ~isComputing

\* C16: last writer wins: once a newer run of the effect has finished with a
\* result, no older run's result is displayed, whenever the older one ends.
C16_LastWriterWins ==
  \A r \in DOMAIN reqs : reqs[r].stage = "done" => skylineResult >= r

\* C17: the orchestrator never has two computeSkylineWebGPU calls in flight.
C17_OneInFlight ==
  Cardinality({ r \in DOMAIN reqs : InFlight(r) }) <= 1

----------------------------------------------------------------------------
(* Buffer contents *)

\* C21: no stale contents leak across buffer reuse: the result of a call has
\* exactly the N records of its input, and the counters of record i are the
\* ones the kernel computes for work-item i from the call's own input,
\* whatever earlier, larger calls left in the buffers.
C21_NoStaleLeak ==
  (pc = "done" /\ ~isDegenerate(data, attrs)) =>
    /\ DOMAIN gpuResult.dominatedBy = Ids(data)
    /\ DOMAIN gpuResult.dominanceScores = Ids(data)
    /\ Cardinality(DOMAIN gpuResult.dominatedBy) = Len(data)
    /\ \A i \in DOMAIN data :
         LET k == kernelMain(flatten(data, attrs), i - 1, Len(attrs), Len(data))
         IN /\ gpuResult.dominatedBy[data[i].id] = k[1]
            /\ gpuResult.dominanceScores[data[i].id] = k[2]
            /\ (data[i].id \in gpuResult.skylineIds) <=> (k[1] = 0)

C21_Witness ==
  /\ pc = "done" /\ ~isDegenerate(data, attrs)
  /\ LET dw == gpuBuffers[dataBuf].words
         rw == gpuBuffers[readbackBuf].words
     IN /\ Len(dw) > Len(data) * Len(attrs)
        /\ dw[Len(data) * Len(attrs) + 1] # 0
        /\ \E w \in DOMAIN rw : w > 2 * Len(data) /\ rw[w] # 0

\* Number.isFinite(v) ? v : 0 as a number.
Sanitized(v) == IF v.k = "num" THEN v.n ELSE 0

\* C22: the uploaded data buffer has exactly N*D entries, and entry i*D + d
\* holds the value of record i for the d-th active attribute, 0 standing for
\* every non-finite or non-numeric value.
C22_Marshalling ==
  pc = "awaitWork" =>
    LET w == gpuBuffers[dataBuf].words
        D == Len(attrs)
    IN /\ Len(w) = Len(data) * D
       /\ \A i \in 0..(Len(data) - 1) : \A d \in 0..(D - 1) :
            w[i * D + d + 1] = Sanitized(data[i + 1][attrs[d + 1].key])

----------------------------------------------------------------------------
(* The dispatch *)

\* C23: the dispatch covers every record exactly once: with groups =
\* ceil(N / 64), 64 * groups >= N > 64 * (groups - 1); work-item i < N writes
\* the two counters of record i into pair i of the results buffer, and no
\* word of a pair i >= N is written.
C23_DispatchCoversOnce ==
  probe.set =>
    LET N == probe.count
        v == probe.dataWords
    IN /\ WorkgroupSize * probe.groups >= N
       /\ N > WorkgroupSize * (probe.groups - 1)
       /\ \A i \in 0..(probe.cap - 1) :
            IF i < N
            THEN /\ probe.after[2 * i + 1] =
                      Cardinality({ j \in 1..N : v[j] > v[i + 1] })
                 /\ probe.after[2 * i + 2] =
                      Cardinality({ j \in 1..N : v[i + 1] > v[j] })
            ELSE /\ probe.after[2 * i + 1] = probe.before[2 * i + 1]
                 /\ probe.after[2 * i + 2] = probe.before[2 * i + 2]

C23_Witness ==
  /\ probe.set
  /\ probe.count = WorkgroupSize + 1
  /\ probe.groups = 2
  /\ probe.cap > probe.count
  /\ probe.after[2 * probe.count] < Sentinel(1)
  /\ probe.after[2 * probe.count + 1] = Sentinel(2 * probe.count + 1)

----------------------------------------------------------------------------
(* The color of a record *)

\* The accumulated vector of the normalized values of probe.point.
ColorVector ==
  colorSum(probe.point, probe.attributes, 1, [x |-> 0, y |-> 0, totalNorm |-> 0])

\* C24: computeColorMapND returns the fixed dark fallback color whenever the
\* length of the accumulated vector is below 0.01, whatever its direction,
\* and a color computed from the vector only otherwise.
C24_ColorFallback ==
  probe.set =>
    LET s == ColorVector
    IN (s.x * s.x + s.y * s.y < ColorThreshold * ColorThreshold)
         <=> (probe.color = FallbackColor)

----------------------------------------------------------------------------
(* Ingestion *)

\* C25: the records returned by processUploadedData have pairwise distinct
\* ids, whatever the id cells of the rows.
C25_UniqueIds ==
  probe.set =>
    \A i, j \in DOMAIN probe.data :
      probe.data[i].id = probe.data[j].id => i = j

----------------------------------------------------------------------------
(* Counting the dominating pairs *)

RECURSIVE SumOver(_, _)
\* The sum of the counters f over the ids S.
SumOver(f, S) ==
  IF S = {} THEN 0
  ELSE LET p == CHOOSE q \in S : TRUE
       IN f[p] + SumOver(f, S \ {p})

Balanced(r) ==
  SumOver(r.dominanceScores, DOMAIN r.dominanceScores)
    = SumOver(r.dominatedBy, DOMAIN r.dominatedBy)

\* C26: in every result of either backend the dominanceScores of all records
\* add up to the same number as their dominatedBy.
C26_SumsAgree ==
  /\ Has(cpuResult) => Balanced(cpuResult)
  /\ Has(gpuResult) => Balanced(gpuResult)

C26_Witness ==
  /\ Has(cpuResult) /\ Has(gpuResult)
  /\ Len(data) = 3
  /\ SumOver(cpuResult.dominatedBy, DOMAIN cpuResult.dominatedBy) >= 2
  /\ SumOver(gpuResult.dominatedBy, DOMAIN gpuResult.dominatedBy) >= 2
  /\ ~SameCounts(cpuResult, gpuResult)

----------------------------------------------------------------------------
(* A dominated record has a dominator in the skyline *)

\* The values under the active attributes as dataService.ts:122 stores them:
\* numbers, never NaN.
Ingested(d, attributes) ==
  \A i \in DOMAIN d : \A k \in DOMAIN attributes : d[i][attributes[k].key].k # "nan"

\* C27: for a non-empty input the skyline of computeSkylineCPU is not empty,
\* every record outside it is dominated by a record inside it, and on ingested
\* values the search effect finds at least one skyline dominator for every
\* record outside the skyline.
C27_SkylineCovers ==
  (Has(cpuResult) /\ Len(data) > 0) =>
     /\ cpuResult.skylineIds # {}
     /\ cpuResult.skylineIds \subseteq Ids(data)
     /\ \A i \in DOMAIN data :
          data[i].id \notin cpuResult.skylineIds =>
            /\ \E j \in DOMAIN data :
                 /\ data[j].id \in cpuResult.skylineIds
                 /\ dominates(data[j], data[i], attrs)
            /\ Ingested(data, attrs) =>
                 /\ searchDominators(data[i], cpuResult, data, attrs) # {}
                 /\ \A j \in DOMAIN data :
                      data[j].id \in searchDominators(data[i], cpuResult, data, attrs)
                        <=> /\ data[j].id \in cpuResult.skylineIds
                            /\ dominates(data[j], data[i], attrs)

\* A chain of three: C is dominated by B and by A, B by A alone, so the only
\* skyline dominator of C is A although B dominates it too.
C27_Witness ==
  /\ Has(cpuResult) /\ Len(data) = 3 /\ Len(attrs) = 2
  /\ Ingested(data, attrs)
  /\ cpuResult.skylineIds = {data[1].id}
  /\ dominates(data[2], data[3], attrs)
  /\ searchDominators(data[3], cpuResult, data, attrs) = {data[1].id}
  /\ searchDominators(data[2], cpuResult, data, attrs) = {data[1].id}

----------------------------------------------------------------------------
(* The slots when createBuffer throws *)

SlotPairs ==
  { <<dataBuf, dataBufBytes>>, <<resultBuf, resultBufBytes>>,
    <<uniformBuf, uniformBufBytes>>, <<readbackBuf, readbackBufBytes>> }

\* C28: in every state reached by calls to computeSkylineWebGPU, calls in
\* which createBuffer throws included, every non-null slot holds a buffer that
\* is not destroyed and whose size is the slot's recorded byte count.
C28_SlotsHoldLiveBuffers ==
  \A s \in SlotPairs :
    s[1] # 0 => /\ s[1] \in DOMAIN gpuBuffers
                /\ ~gpuBuffers[s[1]].destroyed
                /\ gpuBuffers[s[1]].size = s[2]

----------------------------------------------------------------------------
(* The staging buffer between calls *)

\* C29: when a call has returned or failed, readbackBuf is not mapped and no
\* mapping of it is pending, and it stays so until the next call has copied
\* into it and asks for the mapping again.
C29_ReadbackReleased ==
  (readbackBuf # 0 /\ pc # "awaitMap") =>
     gpuBuffers[readbackBuf].mapped = "unmapped"

\* A later call that reused all four buffers of the first one, had its first
\* mapAsync rejected, mapped on the second attempt and returned.
C29_Witness ==
  /\ pc = "done" /\ ~isDegenerate(data, attrs)
  /\ presented >= 2 /\ Len(gpuBuffers) = 4
  /\ mapAttempts = 2
  /\ gpuBuffers[readbackBuf].mapped = "unmapped"

----------------------------------------------------------------------------
(* No active attribute *)

\* C30: with an empty active attribute list and N > 0 records,
\* computeSkylineCPU returns every record in skylineIds with all
\* dominanceScores and dominatedBy zero, and computeSkylineWebGPU returns the
\* empty result.
C30_NoActiveAttribute ==
  (Len(attrs) = 0 /\ Len(data) > 0) =>
     /\ Has(cpuResult) =>
          /\ cpuResult.method = "CPU"
          /\ cpuResult.skylineIds = Ids(data)
          /\ cpuResult.dominanceScores = [p \in Ids(data) |-> 0]
          /\ cpuResult.dominatedBy = [p \in Ids(data) |-> 0]
     /\ Has(gpuResult) =>
          /\ gpuResult.method = "WebGPU"
          /\ gpuResult.skylineIds = {}
          /\ gpuResult.dominanceScores = <<>>
          /\ gpuResult.dominatedBy = <<>>
     /\ pc = "idle" \/ (pc = "done" /\ Has(gpuResult) /\ gpuBuffers = <<>>)

\* Both backends have answered for three records and no active attribute.
C30_Witness ==
  /\ Len(attrs) = 0 /\ Len(data) = 3
  /\ Has(cpuResult) /\ Has(gpuResult)
  /\ Cardinality(cpuResult.skylineIds) = 3
  /\ gpuResult.skylineIds = {}

====
